---- MODULE Spec2Model ----
(***************************************************************************)
(* Model of package ipfilter (src/ipfilter/iplist.go): the range-list      *)
(* loader (ParseLine, ReadIPList, ReadIPListFile), the partitioned range   *)
(* index (IPFilter.Contain) and the routing dialer (FilteredDialer).       *)
(*                                                                         *)
(* Addresses are byte sequences of length 4 or 16, as net.IP is; the nil   *)
(* slice is the empty sequence.  A text token is a record [syn, b, n]:     *)
(* syn is the way the token is written ("v4" dotted decimal, "mapped"      *)
(* ::ffff:a.b.c.d, "v6" hexadecimal, "num" a decimal number, "name" a host *)
(* name, "junk" anything else, "empty" the empty string), b the address    *)
(* bytes it denotes and n the number it denotes.                           *)
(***************************************************************************)
EXTENDS Integers, Sequences, FiniteSets, TLC

VARIABLES fps, last, loaded, panicked

vars == <<fps, last, loaded, panicked>>

(***************************************************************************)
(* Bounds of the model.                                                    *)
(***************************************************************************)
MaxLines == 2
MaxPairs == 2

(***************************************************************************)
(* Package net, as far as iplist.go uses it.                               *)
(***************************************************************************)
IPv4len == 4
IPv6len == 16

v4InV6Prefix == <<0, 0, 0, 0, 0, 0, 0, 0, 0, 0, 255, 255>>

NilIP == <<>>

RECURSIVE BitAnd(_, _)
BitAnd(a, b) ==
  IF a = 0 \/ b = 0 THEN 0
  ELSE (a % 2) * (b % 2) + 2 * BitAnd(a \div 2, b \div 2)

\* net.IP.To4: the 4-byte form of an IPv4 address, nil otherwise.
To4(ip) ==
  IF Len(ip) = IPv4len THEN ip
  ELSE IF /\ Len(ip) = IPv6len
          /\ SubSeq(ip, 1, 12) = v4InV6Prefix
       THEN SubSeq(ip, 13, 16)
       ELSE NilIP

\* net.ParseIP: IPv4 text parses to the 16-byte IPv4-in-IPv6 form.
ParseIP(tok) ==
  CASE tok.syn \in {"v4", "mapped"} -> v4InV6Prefix \o tok.b
    [] tok.syn = "v6" -> tok.b
    [] OTHER -> NilIP

\* net.CIDRMask(ones, bits)
CIDRMask(ones, bits) ==
  [i \in 1..(bits \div 8) |->
     LET r == ones - 8 * (i - 1)
     IN  IF r >= 8 THEN 255 ELSE IF r <= 0 THEN 0 ELSE 256 - 2^(8 - r)]

\* net.IP.Mask(mask)
MaskIP(ip, mask) ==
  LET m  == IF Len(mask) = IPv6len /\ Len(ip) = IPv4len
               /\ \A i \in 1..12 : mask[i] = 255
            THEN SubSeq(mask, 13, 16) ELSE mask
      ip2 == IF Len(m) = IPv4len /\ Len(ip) = IPv6len
                /\ SubSeq(ip, 1, 12) = v4InV6Prefix
             THEN SubSeq(ip, 13, 16) ELSE ip
  IN  IF Len(ip2) # Len(m) THEN NilIP
      ELSE [i \in 1..Len(ip2) |-> BitAnd(ip2[i], m[i])]

RECURSIVE LeadingOnes(_)
LeadingOnes(v) == IF v >= 128 THEN 1 + LeadingOnes((2 * v) % 256) ELSE 0

RECURSIVE ShiftedRest(_)
ShiftedRest(v) == IF v >= 128 THEN ShiftedRest((2 * v) % 256) ELSE v

\* net.simpleMaskLength: the number of leading ones, -1 when the mask is not
\* a run of ones followed by zeros.
RECURSIVE simpleMaskLength(_)
simpleMaskLength(mask) ==
  IF mask = <<>> THEN 0
  ELSE IF Head(mask) = 255
       THEN LET t == simpleMaskLength(Tail(mask))
            IN  IF t = -1 THEN -1 ELSE 8 + t
       ELSE IF \/ ShiftedRest(Head(mask)) # 0
               \/ \E i \in 2..Len(mask) : mask[i] # 0
            THEN -1
            ELSE LeadingOnes(Head(mask))

\* net.IPMask.Size: the first result, ones (0 for a non-canonical mask).
MaskOnes(mask) ==
  LET n == simpleMaskLength(mask) IN IF n = -1 THEN 0 ELSE n

\* net.networkNumberAndMask
networkNumberAndMask(ipnet) ==
  LET ip == IF To4(ipnet.IP) # NilIP THEN To4(ipnet.IP) ELSE ipnet.IP
      none == [ip |-> NilIP, m |-> <<>>]
  IN  IF Len(ip) \notin {IPv4len, IPv6len} THEN none
      ELSE IF Len(ipnet.Mask) = IPv4len
           THEN IF Len(ip) # IPv4len THEN none
                ELSE [ip |-> ip, m |-> ipnet.Mask]
      ELSE IF Len(ipnet.Mask) = IPv6len
           THEN IF Len(ip) = IPv4len
                THEN [ip |-> ip, m |-> SubSeq(ipnet.Mask, 13, 16)]
                ELSE [ip |-> ip, m |-> ipnet.Mask]
      ELSE none

\* net.IPNet.Contains
IPNetContains(ipnet, ip) ==
  LET nm == networkNumberAndMask(ipnet)
      x  == IF To4(ip) # NilIP THEN To4(ip) ELSE ip
  IN  /\ Len(x) = Len(nm.ip)
      /\ \A i \in 1..Len(x) : BitAnd(nm.ip[i], nm.m[i]) = BitAnd(x[i], nm.m[i])

\* binary.BigEndian.Uint16(b[:2])
Uint16(b) == b[1] * 256 + b[2]

(***************************************************************************)
(* Text of a range list.                                                   *)
(***************************************************************************)
V4(a, b, c, d) == [syn |-> "v4", b |-> <<a, b, c, d>>, n |-> 0]
Mapped(a, b, c, d) == [syn |-> "mapped", b |-> <<a, b, c, d>>, n |-> 0]
V6(hi, lo) ==
  [syn |-> "v6",
   b |-> <<hi \div 256, hi % 256, 13, 184, 0, 0, 0, 0,
           0, 0, 0, 0, 0, 0, 0, lo>>,
   n |-> 0]
V6Mask(ones) == [syn |-> "v6", b |-> CIDRMask(ones, 128), n |-> 0]
Num(k) == [syn |-> "num", b |-> <<>>, n |-> k]
Name(k) == [syn |-> "name", b |-> <<>>, n |-> k]
Junk == [syn |-> "junk", b |-> <<>>, n |-> 0]
Empty == [syn |-> "empty", b |-> <<>>, n |-> 0]

\* "a/b", "a b" and a line of one token (the empty line is Single(Empty)).
Cidr(a, k) == [form |-> "cidr", a |-> a, b |-> Num(k)]
Pair(a, m) == [form |-> "pair", a |-> a, b |-> m]
Single(a) == [form |-> "single", a |-> a, b |-> Empty]
\* a read of the stream that fails with an error other than io.EOF
IOErr == [form |-> "ioerr", a |-> Empty, b |-> Empty]

(***************************************************************************)
(* ParseLine                                                               *)
(***************************************************************************)
NilIPNet == [IP |-> NilIP, Mask |-> <<>>]

\* net.ParseCIDR(line)
ParseCIDR(line) ==
  LET iplen == IF line.a.syn = "v4" THEN IPv4len ELSE IPv6len
      ok == /\ line.form = "cidr"
            /\ line.a.syn \in {"v4", "mapped", "v6"}
            /\ line.b.syn = "num"
            /\ line.b.n >= 0
            /\ line.b.n <= 8 * iplen
      m == CIDRMask(line.b.n, 8 * iplen)
  IN  IF ok
      THEN [err |-> FALSE,
            ipnet |-> [IP |-> MaskIP(ParseIP(line.a), m), Mask |-> m]]
      ELSE [err |-> TRUE, ipnet |-> NilIPNet]

\* strings.Split(line, " ")
SplitLine(line) ==
  IF line.form = "pair" THEN <<line.a, line.b>>
  ELSE IF line.form = "single" THEN <<line.a>>
  ELSE <<Junk>>

\* ParseLine: status "ok" (err is nil), or "panic" (addrs[1] out of range).
ParseLine(line) ==
  LET c == ParseCIDR(line)
      addrs == SplitLine(line)
      ip0 == ParseIP(addrs[1])
      ip == IF To4(ip0) # NilIP THEN To4(ip0) ELSE ip0
      mask0 == ParseIP(addrs[2])
      mask == IF To4(mask0) # NilIP THEN To4(mask0) ELSE mask0
  IN  IF ~c.err THEN [status |-> "ok", err |-> FALSE, ipnet |-> c.ipnet]
      ELSE IF Len(addrs) < 2
           THEN [status |-> "panic", err |-> FALSE, ipnet |-> NilIPNet]
           ELSE [status |-> "ok", err |-> FALSE,
                 ipnet |-> [IP |-> ip, Mask |-> mask]]

(***************************************************************************)
(* IPFilter and ReadIPList                                                 *)
(***************************************************************************)
EmptyMap == <<>>

\* a nil *IPFilter
NilFilter == [nil |-> TRUE, rest |-> <<>>, idx1 |-> EmptyMap, idx2 |-> EmptyMap]

\* &IPFilter{idx1: make(map...), idx2: make(map...)}
NewFilter == [nil |-> FALSE, rest |-> <<>>, idx1 |-> EmptyMap, idx2 |-> EmptyMap]

\* m[k] = append(m[k], v)
MapAppend(m, k, v) ==
  IF k \in DOMAIN m THEN [m EXCEPT ![k] = Append(@, v)]
  ELSE (k :> <<v>>) @@ m

ListConatins(iplist, ip) ==
  \E i \in 1..Len(iplist) : IPNetContains(iplist[i], ip)

\* IPFilter.Contain on a non-nil filter
Contain(f, ip0) ==
  LET ip == IF To4(ip0) # NilIP THEN To4(ip0) ELSE ip0
      prefix2 == Uint16(ip)
      prefix1 == ip[1]
  IN  \/ prefix2 \in DOMAIN f.idx2 /\ ListConatins(f.idx2[prefix2], ip)
      \/ prefix1 \in DOMAIN f.idx1 /\ ListConatins(f.idx1[prefix1], ip)
      \/ ListConatins(f.rest, ip)

\* strings.Trim(line, "\r\n "): a token made of spaces only disappears.
Trim(line) ==
  IF line.form = "pair" /\ line.b.syn = "empty" THEN Single(line.a)
  ELSE IF line.form = "pair" /\ line.a.syn = "empty" THEN Single(line.b)
  ELSE line

\* Bucket with the first boundary off by one: a /8 goes to the coarse list
BucketOffByOne(ones) ==
  IF ones <= 8 THEN "rest"
  ELSE IF ones < 16 THEN "idx1"
  ELSE "idx2"

\* the switch on ones in ReadIPList
Bucket(ones) ==
  IF ones < 8 THEN "rest"
  ELSE IF ones >= 8 /\ ones < 16 THEN "idx1"
  ELSE "idx2"

\* the body of the switch: panic when the index key reads past ipnet.IP
Insert(filter, ipnet) ==
  LET ones == MaskOnes(ipnet.Mask)
      bucket == Bucket(ones)
  IN  IF bucket = "rest"
      THEN [panic |-> FALSE,
            filter |-> [filter EXCEPT !.rest = Append(@, ipnet)]]
      ELSE IF bucket = "idx1"
      THEN IF Len(ipnet.IP) < 1 THEN [panic |-> TRUE, filter |-> filter]
           ELSE [panic |-> FALSE,
                 filter |-> [filter EXCEPT
                               !.idx1 = MapAppend(@, ipnet.IP[1], ipnet)]]
      ELSE IF Len(ipnet.IP) < 2 THEN [panic |-> TRUE, filter |-> filter]
           ELSE [panic |-> FALSE,
                 filter |-> [filter EXCEPT
                               !.idx2 = MapAppend(@, Uint16(ipnet.IP), ipnet)]]

Result(status, filter, counter) ==
  [status |-> status, filter |-> filter, counter |-> counter]

\* the loop of ReadIPList over the lines still to be read
RECURSIVE ReadLoop(_, _, _)
ReadLoop(stream, filter, counter) ==
  IF stream = <<>> THEN Result("ok", filter, counter)
  ELSE IF Head(stream).form = "ioerr" THEN Result("err", NilFilter, counter)
  ELSE LET p == ParseLine(Trim(Head(stream)))
           ins == Insert(filter, p.ipnet)
       IN  IF p.status = "panic" THEN Result("panic", NilFilter, counter)
           ELSE IF p.err THEN Result("err", NilFilter, counter)
           ELSE IF ins.panic THEN Result("panic", NilFilter, counter)
           ELSE ReadLoop(Tail(stream), ins.filter, counter + 1)

ReadIPList(stream) == ReadLoop(stream, NewFilter, 0)

\* a file: whether os.Open succeeds, whether its name ends in ".gz" and the
\* gzip header is good, and the lines it (decompresses to and) holds
File(open, gz, stream) == [open |-> open, gz |-> gz, stream |-> stream]

ReadIPListFile(file) ==
  IF ~file.open THEN Result("err", NilFilter, 0)
  ELSE IF file.gz = "bad" THEN Result("err", NilFilter, 0)
  ELSE ReadIPList(file.stream)

(***************************************************************************)
(* FilteredDialer                                                          *)
(***************************************************************************)
\* a []net.IP: the nil slice differs from an empty non-nil slice
NilList == [nil |-> TRUE, list |-> <<>>]
EmptyList == [nil |-> FALSE, list |-> <<>>]
List(s) == [nil |-> FALSE, list |-> s]

DefaultDialer == "default"
PairDialers == {"d1", "d2"}
Dialers == PairDialers \cup {DefaultDialer}

\* what a dialer returns: its connection, or its error
DialerReturn(dialer, outcome) ==
  IF outcome = "conn" THEN [conn |-> dialer, err |-> "nil"]
  ELSE [conn |-> "nil", err |-> outcome]

HostPort(host) == [hostport |-> TRUE, host |-> host]
NoPort(host) == [hostport |-> FALSE, host |-> host]

\* net.SplitHostPort(address)
SplitHostPort(address) ==
  IF address.hostport THEN [err |-> FALSE, host |-> address.host]
  ELSE [err |-> TRUE, host |-> Empty]

\* Getaddrs without the literal-IP test: the resolver is always asked
GetaddrsAlwaysLookup(hostname, lk) ==
  [ips |-> lk.ips, lookups |-> <<hostname>>, logged |-> lk.err]

\* Getaddrs; lk is what resolver.LookupIP returns when it is called
Getaddrs(hostname, lk) ==
  LET ip == ParseIP(hostname)
  IN  IF ip # NilIP
      THEN [ips |-> List(<<ip>>), lookups |-> <<>>, logged |-> FALSE]
      ELSE [ips |-> lk.ips, lookups |-> <<hostname>>, logged |-> lk.err]

\* fd.fps = append(fd.fps, fp) in LoadFilter
Register(f, fp) == Append(f, fp)

\* NoPairs without the pass-through: Dial always splits and resolves
NoPairsNever(f) == FALSE

\* len(fd.fps) == 0
NoPairs(f) == Len(f) = 0

\* DialVia that falls back to the default dialer when the dialer fails
DialViaRetry(dialer, network, address, dr) ==
  LET first == [dialer |-> dialer, network |-> network, address |-> address,
                ret |-> DialerReturn(dialer, dr[dialer])]
      second == [dialer |-> DefaultDialer, network |-> network,
                 address |-> address,
                 ret |-> DialerReturn(DefaultDialer, dr[DefaultDialer])]
  IN  IF dr[dialer] # "conn" /\ dialer # DefaultDialer
      THEN [dialed |-> <<first, second>>, ret |-> second.ret]
      ELSE [dialed |-> <<first>>, ret |-> first.ret]

\* dialer.Dial(network, address) and what Dial returns after it; dr gives the
\* outcome of each dialer
DialVia(dialer, network, address, dr) ==
  [dialed |-> <<[dialer |-> dialer, network |-> network, address |-> address,
                 ret |-> DialerReturn(dialer, dr[dialer])]>>,
   ret |-> DialerReturn(dialer, dr[dialer])]

\* the loops over fd.fps and addrs, from pair i on: the first pair that
\* contains a candidate; a nil filter panics at its first candidate
RECURSIVE MatchPairs(_, _, _)
MatchPairs(f, i, addrs) ==
  IF i > Len(f) \/ addrs = <<>> THEN [kind |-> "none", idx |-> 0]
  ELSE IF f[i].filter.nil THEN [kind |-> "panic", idx |-> i]
  ELSE IF \E k \in 1..Len(addrs) : Contain(f[i].filter, addrs[k])
       THEN [kind |-> "match", idx |-> i]
       ELSE MatchPairs(f, i + 1, addrs)

\* what one call of Dial did: the calls of SplitHostPort and LookupIP, whether
\* a lookup error was logged, the candidates, the dialers called, the return
Outcome(network, address, split, ga, dialed, ret, panic) ==
  [op |-> "Dial", network |-> network, address |-> address, split |-> split,
   lookups |-> ga.lookups, logged |-> ga.logged, addrs |-> ga.ips,
   dialed |-> dialed, ret |-> ret, panic |-> panic]

NoGetaddrs == [ips |-> NilList, lookups |-> <<>>, logged |-> FALSE]

NoReturn == [conn |-> "nil", err |-> "nil"]

\* FilteredDialer.Dial
DialOutcome(f, network, address, lk, dr) ==
  LET sp == SplitHostPort(address)
      ga == Getaddrs(sp.host, lk)
      m == MatchPairs(f, 1, ga.ips.list)
      viaDefault == DialVia(DefaultDialer, network, address, dr)
      viaPair == DialVia(f[m.idx].dialer, network, address, dr)
  IN  IF NoPairs(f)
      THEN Outcome(network, address, 0, NoGetaddrs,
                   viaDefault.dialed, viaDefault.ret, FALSE)
      ELSE IF sp.err
      THEN Outcome(network, address, 1, NoGetaddrs, <<>>,
                   [conn |-> "nil", err |-> "AddrError"], FALSE)
      ELSE IF ga.ips.nil
      THEN Outcome(network, address, 1, ga, <<>>,
                   [conn |-> "nil", err |-> "ErrDNSNotFound"], FALSE)
      ELSE IF m.kind = "panic"
      THEN Outcome(network, address, 1, ga, <<>>,
                   NoReturn, TRUE)
      ELSE IF m.kind = "match"
      THEN Outcome(network, address, 1, ga,
                   viaPair.dialed, viaPair.ret, FALSE)
      ELSE Outcome(network, address, 1, ga,
                   viaDefault.dialed, viaDefault.ret, FALSE)

(***************************************************************************)
(* Inputs                                                                  *)
(***************************************************************************)
Lines ==
  { Cidr(V4(10, 0, 0, 0), 8),
    Cidr(V4(1, 2, 3, 4), 32),
    Cidr(V4(0, 0, 0, 0), 4),
    Cidr(V4(10, 1, 0, 0), 16),
    Cidr(Mapped(10, 0, 0, 0), 104),
    Cidr(V6(8193, 0), 32),
    Cidr(V4(10, 0, 0, 0), 33),
    Pair(V4(10, 0, 0, 0), V4(255, 0, 0, 0)),
    Pair(V4(11, 0, 0, 0), V4(255, 0, 255, 0)),
    Pair(Mapped(1, 2, 3, 0), V4(255, 255, 255, 0)),
    Pair(V6(8193, 0), V6Mask(12)),
    Pair(V4(10, 0, 0, 0), Empty),
    Pair(Junk, Junk),
    Pair(Junk, V4(255, 255, 0, 0)),
    Single(V4(10, 0, 0, 0)),
    Single(Empty),
    IOErr }

Streams == UNION { [1..n -> Lines] : n \in 0..MaxLines }

\* addresses asked of Contain, in the 4-byte and the 16-byte form
QueryIPs ==
  { <<10, 1, 2, 3>>, v4InV6Prefix \o <<10, 1, 2, 3>>, <<11, 0, 0, 1>>,
    <<10, 200, 0, 1>>, <<1, 2, 3, 4>>, v4InV6Prefix \o <<1, 2, 3, 5>>,
    <<15, 0, 0, 1>>, <<16, 0, 0, 1>>, V6(8193, 1).b, V6(8208, 1).b }

Files ==
  { File(FALSE, "none", <<>>),
    File(TRUE, "bad", <<>>),
    File(TRUE, "none", <<Cidr(V4(10, 0, 0, 0), 8)>>),
    File(TRUE, "ok", <<Cidr(V4(0, 0, 0, 0), 4), Cidr(V4(8, 8, 0, 0), 16)>>),
    File(TRUE, "ok", <<Cidr(V4(10, 0, 0, 0), 8), IOErr>>),
    File(TRUE, "none", <<Cidr(V4(10, 0, 0, 0), 8), Single(Empty)>>) }

Networks == {"tcp"}

Addresses ==
  { HostPort(V4(10, 1, 2, 3)), HostPort(V4(8, 8, 8, 8)),
    HostPort(V4(93, 184, 216, 34)), HostPort(V6(8193, 1)),
    HostPort(Name(1)), NoPort(Name(1)), NoPort(V4(10, 1, 2, 3)) }

\* what the resolver may answer: any list, with or without an error
LookupResults ==
  { [ips |-> l, err |-> e] :
      l \in { NilList, EmptyList,
              List(<<v4InV6Prefix \o <<10, 0, 0, 5>>>>),
              List(<<<<8, 8, 8, 8>>, <<10, 0, 0, 5>>>>),
              List(<<<<93, 184, 216, 34>>>>) },
      e \in BOOLEAN }

DialerOutcomes == [Dialers -> {"conn", "refused"}]

(***************************************************************************)
(* State machine                                                           *)
(***************************************************************************)
NoLoad == [stream |-> <<>>, res |-> Result("none", NilFilter, 0)]

Init ==
  /\ fps = <<>>
  /\ last = [op |-> "none"]
  /\ loaded = NoLoad
  /\ panicked = FALSE

\* fd.LoadFilter(dialer, filename)
LoadFilter(dialer, file) ==
  LET r == ReadIPListFile(file)
  IN  /\ ~panicked
      /\ Len(fps) < MaxPairs
      /\ IF r.status = "panic"
         THEN /\ panicked' = TRUE
              /\ fps' = fps
              /\ last' = [op |-> "LoadFilter", dialer |-> dialer,
                          file |-> file, err |-> FALSE, panic |-> TRUE]
         ELSE /\ panicked' = FALSE
              /\ fps' = Register(fps, [dialer |-> dialer, filter |-> r.filter])
              /\ last' = [op |-> "LoadFilter", dialer |-> dialer,
                          file |-> file, err |-> (r.status = "err"),
                          panic |-> FALSE]
      /\ UNCHANGED loaded

\* fd.Dial(network, address)
Dial(network, address) ==
  /\ ~panicked
  /\ \E lk \in LookupResults, dr \in DialerOutcomes :
       /\ last' = DialOutcome(fps, network, address, lk, dr)
       /\ panicked' = last'.panic
  /\ UNCHANGED <<fps, loaded>>

Next ==
  \/ \E d \in PairDialers, file \in Files : LoadFilter(d, file)
  \/ \E nw \in Networks, a \in Addresses : Dial(nw, a)

Spec == Init /\ [][Next]_vars

\* ReadIPList(f) on the stream of lines that was drawn
DoReadIPList(stream) ==
  /\ ~panicked
  /\ loaded.res.status = "none"
  /\ loaded.stream = stream
  /\ loaded' = [stream |-> stream, res |-> ReadIPList(stream)]
  /\ last' = [op |-> "ReadIPList"]
  /\ panicked' = (loaded'.res.status = "panic")
  /\ UNCHANGED fps

\* filter.Contain(ip) on the filter that was loaded
DoContain(ip) ==
  /\ ~panicked
  /\ loaded.res.status = "ok"
  /\ last' = [op |-> "Contain", ip |-> ip, res |-> Contain(loaded.res.filter, ip)]
  /\ UNCHANGED <<fps, loaded, panicked>>

InitLoad ==
  /\ fps = <<>>
  /\ last = [op |-> "none"]
  /\ loaded \in { [stream |-> s, res |-> Result("none", NilFilter, 0)] :
                    s \in Streams }
  /\ panicked = FALSE

NextLoad ==
  \/ \E stream \in Streams : DoReadIPList(stream)
  \/ \E ip \in QueryIPs : DoContain(ip)

SpecLoad == InitLoad /\ [][NextLoad]_vars

(***************************************************************************)
(* Properties                                                              *)
(***************************************************************************)
\* a line in one of the two forms of the file format, its address (and mask)
\* written as IPv4, IPv4-mapped IPv6 or IPv6
WellFormedLine(l) ==
  \/ l.form = "cidr" /\ ~ParseCIDR(l).err
  \/ /\ l.form = "pair"
     /\ l.a.syn \in {"v4", "mapped", "v6"}
     /\ l.b.syn \in {"v4", "mapped", "v6"}

\* the ranges of the lines of a stream, in order, unpartitioned
OriginalRanges(stream) ==
  [i \in 1..Len(stream) |-> ParseLine(Trim(stream[i])).ipnet]

Occurrences(list, r) == Cardinality({i \in 1..Len(list) : list[i] = r})

MapOccurrences(m, k, r) == IF k \in DOMAIN m THEN Occurrences(m[k], r) ELSE 0

RECURSIVE MapSize(_, _)
MapSize(m, keys) ==
  IF keys = {} THEN 0
  ELSE LET k == CHOOSE x \in keys : TRUE
       IN  Len(m[k]) + MapSize(m, keys \ {k})

\* C1: for a list of well-formed range lines that ReadIPList loads, Contain
\* answers for every address what a linear scan (ListConatins) of the whole
\* unpartitioned list answers.
C1_PartitionInvariant ==
  ( /\ last.op = "Contain"
    /\ loaded.res.status = "ok"
    /\ \A i \in 1..Len(loaded.stream) : WellFormedLine(loaded.stream[i]) )
  => last.res = ListConatins(OriginalRanges(loaded.stream), last.ip)

\* C4: a stream holding a line that is neither valid CIDR nor a valid
\* "address mask" pair makes ReadIPList return an error and a nil filter: no
\* crash, no skipping, no range built from the bad line.
C4_BadLineAborts ==
  ( /\ loaded.res.status # "none"
    /\ \A i \in 1..Len(loaded.stream) : loaded.stream[i].form # "ioerr"
    /\ \E i \in 1..Len(loaded.stream) : ~WellFormedLine(loaded.stream[i]) )
  => loaded.res.status = "err" /\ loaded.res.filter.nil

\* C9: after a load, each range sits in exactly one bucket, chosen by its
\* prefix length p alone: rest iff p < 8, idx1 under its first byte iff
\* 8 <= p < 16, idx2 under its first two bytes iff p >= 16; the buckets hold
\* as many ranges as lines were loaded.
C9_Classification ==
  loaded.res.status = "ok" =>
    LET R == OriginalRanges(loaded.stream)
        f == loaded.res.filter
    IN  /\ loaded.res.counter = Len(loaded.stream)
        /\ Len(f.rest) + MapSize(f.idx1, DOMAIN f.idx1)
             + MapSize(f.idx2, DOMAIN f.idx2) = Len(loaded.stream)
        /\ \A i \in 1..Len(R) :
             LET r == R[i]
                 p == MaskOnes(r.Mask)
                 n == Occurrences(R, r)
             IN  /\ Occurrences(f.rest, r) = IF p < 8 THEN n ELSE 0
                 /\ \A k \in DOMAIN f.idx1 :
                      Occurrences(f.idx1[k], r) =
                        IF p >= 8 /\ p < 16 /\ k = r.IP[1] THEN n ELSE 0
                 /\ \A k \in DOMAIN f.idx2 :
                      Occurrences(f.idx2[k], r) =
                        IF p >= 16 /\ k = r.IP[1] * 256 + r.IP[2] THEN n ELSE 0
                 /\ (p >= 8 /\ p < 16) => r.IP[1] \in DOMAIN f.idx1
                 /\ p >= 16 => (r.IP[1] * 256 + r.IP[2]) \in DOMAIN f.idx2

\* a load of two lines that went to two different kinds of bucket
C9_Witness ==
  /\ loaded.res.status = "ok"
  /\ Len(loaded.stream) = 2
  /\ Len(loaded.res.filter.rest) = 1
  /\ DOMAIN loaded.res.filter.idx1 # {}

\* the pair holds a Range Index and that index contains a candidate
PairContains(fp, addrs) ==
  /\ ~fp.filter.nil
  /\ \E k \in 1..Len(addrs) : Contain(fp.filter, addrs[k])

\* the call of Dial got as far as a candidate list
Resolved == last.op = "Dial" /\ Len(fps) > 0 /\ last.address.hostport

\* C2: with a pair registered and a non-empty candidate list, Dial delegates
\* to the dialer of the earliest-registered pair whose Range Index contains a
\* candidate, and to the default dialer iff no pair contains one.
C2_RegistrationOrder ==
  (Resolved /\ last.addrs.list # <<>>) =>
    LET winners == {i \in 1..Len(fps) : PairContains(fps[i], last.addrs.list)}
        first == CHOOSE i \in winners : \A j \in winners : i <= j
    IN  /\ Len(last.dialed) = 1
        /\ last.dialed[1].dialer =
             IF winners = {} THEN DefaultDialer ELSE fps[first].dialer

\* C3: with a pair registered and an empty candidate list (nil, or empty and
\* not nil), Dial fails with ErrDNSNotFound and calls no dialer.
C3_EmptyCandidates ==
  (Resolved /\ last.addrs.list = <<>>) =>
    last.ret.err = "ErrDNSNotFound" /\ last.dialed = <<>>

\* C5: when LookupIP returned an error, the candidate list is empty whatever
\* list came with the error, Dial fails with ErrDNSNotFound and calls no
\* dialer.
C5_LookupErrorIsEmpty ==
  (Resolved /\ last.logged) =>
    /\ last.addrs.list = <<>>
    /\ last.ret.err = "ErrDNSNotFound"
    /\ last.dialed = <<>>

\* the call that just returned returned an error
ReturnedError(l) ==
  \/ l.op = "LoadFilter" /\ l.err
  \/ l.op = "Dial" /\ l.ret.err # "nil"

\* C6: a call of LoadFilter or Dial that returns an error leaves the Filter
\* Pair sequence and every Range Index as they were.
C6_ErrorsDoNotMutate == [][ReturnedError(last') => fps' = fps]_vars

\* C7: with no pair registered, Dial calls the default dialer exactly once
\* with the network and the address it was given, splits nothing, resolves
\* nothing, and returns what that dialer returned.
C7_PassThrough ==
  (last.op = "Dial" /\ Len(fps) = 0) =>
    /\ Len(last.dialed) = 1
    /\ last.dialed[1].dialer = DefaultDialer
    /\ last.dialed[1].network = last.network
    /\ last.dialed[1].address = last.address
    /\ last.ret = last.dialed[1].ret
    /\ last.split = 0
    /\ last.lookups = <<>>

\* a pass-through of an address that is not in host:port form, refused
C7_Witness ==
  /\ last.op = "Dial"
  /\ Len(fps) = 0
  /\ ~last.address.hostport
  /\ last.ret.err = "refused"

\* C8: when the host is a literal IP, LookupIP is not called and the
\* candidates are that one address; LookupIP is called at most once, and only
\* with a pair registered, a host:port address and a host that is no literal.
C8_LiteralFastPath ==
  last.op = "Dial" =>
    /\ (last.address.hostport /\ ParseIP(last.address.host) # NilIP) =>
         /\ last.lookups = <<>>
         /\ Len(fps) > 0 => last.addrs = List(<<ParseIP(last.address.host)>>)
    /\ Len(last.lookups) <= 1
    /\ Len(last.lookups) = 1 =>
         /\ Len(fps) > 0
         /\ last.address.hostport
         /\ ParseIP(last.address.host) = NilIP
         /\ last.lookups[1] = last.address.host

\* a literal host dialed through a registered pair
C8_Witness ==
  /\ Resolved
  /\ ParseIP(last.address.host) # NilIP
  /\ Len(last.dialed) = 1
  /\ last.dialed[1].dialer \in PairDialers

\* C10: a Dial calls at most one dialer, once, and returns what it returned;
\* a Dial that fails to split the address calls no dialer and no resolver.
C10_SingleDelegation ==
  last.op = "Dial" =>
    /\ Len(last.dialed) <= 1
    /\ Len(last.dialed) = 1 => last.ret = last.dialed[1].ret
    /\ last.ret.err = "AddrError" => last.dialed = <<>> /\ last.lookups = <<>>

\* the first of two pairs won and its dialer failed
C10_Witness ==
  /\ last.op = "Dial"
  /\ Len(fps) = 2
  /\ Len(last.dialed) = 1
  /\ last.dialed[1].dialer = fps[1].dialer
  /\ fps[2].dialer # fps[1].dialer
  /\ PairContains(fps[2], last.addrs.list)
  /\ last.ret.err = "refused"

====
